---- MODULE Spec2Model ----
(***************************************************************************)
(* Model of andres::ilp::Gurobi and its nested Gurobi::Callback            *)
(* (include/andres/ilp/gurobi-callback.hxx).                               *)
(*                                                                         *)
(* The session (class Gurobi) owns the variables and the constraint pool;  *)
(* the callback (class Gurobi::Callback) is entered by the solver at       *)
(* search events (the member `where`) and keeps objectiveBest_,            *)
(* objectiveBound_ and feasibleHeuristic_.  The solver itself is the       *)
(* environment: it chooses which event comes next, what values it reports  *)
(* and what the user's two virtual routines do.                            *)
(*                                                                         *)
(* Spec is the callback protocol and SpecBuild the building of the model;  *)
(* SpecParams is setPreSolver and setLPSolver, and SpecScenario the        *)
(* session of two binary variables with one lazy constraint.  The solver   *)
(* enters callback() from one thread at a time, so a dispatch is one step. *)
(*                                                                         *)
(* Doubles are encoded as integers on one ordered scale: the finite values *)
(* used are small integers, GRB_INFINITY stands for the solver's sentinel  *)
(* 1e100 (a finite double) and infinity for the IEEE infinity, which is    *)
(* larger than every finite double.                                        *)
(***************************************************************************)
EXTENDS Integers, Sequences, FiniteSets, TLC

\* ---------------------------------------------------------------- bounds
MaxDispatch == 4        \* callback entries in one behaviour
MaxVariables == 2       \* variables a session creates
MaxConstraints == 2     \* addConstraint and addLazyConstraint calls

\* ------------------------------------------------------------- constants
GRB_INFINITY == 100     \* the solver's sentinel 1e100
infinity == GRB_INFINITY + 1   \* std::numeric_limits<double>::infinity()
Garbage == 0 - 1        \* a handle read past the end of gurobiVariables_

\* What getDoubleInfo can return for OBJBST / OBJBND.
SolverValues == {0 - GRB_INFINITY, 0, 1, GRB_INFINITY}
\* Bounds a client passes to addConstraint / addLazyConstraint.
LowerBounds == {0 - infinity, 0}
UpperBounds == {0, 1, infinity}
\* Index lists a client passes to addConstraint / addLazyConstraint.
IndexLists == {<<0>>, <<1>>}
\* How a user routine (or a solver call it makes) ends.
Outcomes == {"ok", "GRBException", "other"}

VARIABLES
    \* Gurobi::Callback; whereMember is the member `where` of its base
    \* GRBCallback, which the solver writes before it calls callback()
    objectiveBest_, objectiveBound_, feasibleHeuristic_, whereMember,
    \* Gurobi
    nVariables_, gurobiVariables_, gurobiObjective_,
    \* the GRBModel behind gurobiModel_
    constraints, lazyConstraints, heuristicSolution,
    searching, optimizeResult, solverObjBst, solverObjBnd,
    \* history of the run (not program state)
    last, dispatches, candidates, freshCandidates,
    heuristicCalls, heuristicReturns, resetSinceCandidate, mipInSearch,
    pendingInSearch,
    \* the solver's accepted candidate
    incumbent,
    \* the GRBEnv parameters, and the last setPreSolver / setLPSolver call
    gurobiParams, lastPreSolver, lastLPSolver

callbackVars == <<objectiveBest_, objectiveBound_, feasibleHeuristic_, whereMember>>
sessionVars == <<nVariables_, gurobiVariables_, gurobiObjective_>>
poolVars == <<constraints, lazyConstraints, heuristicSolution>>
solverVars == <<searching, optimizeResult, solverObjBst, solverObjBnd>>
historyVars == <<last, dispatches, candidates, freshCandidates,
                 heuristicCalls, heuristicReturns, resetSinceCandidate, mipInSearch,
                 pendingInSearch>>
paramVars == <<gurobiParams, lastPreSolver, lastLPSolver>>
vars == <<callbackVars, sessionVars, poolVars, solverVars, historyVars,
          incumbent, paramVars>>

NoDispatch == [where |-> "none", flagAtEntry |-> FALSE, resetBefore |-> FALSE,
               sepCalls |-> 0, heurCalls |-> 0, thrown |-> "none",
               objbst |-> 0, objbnd |-> 0,
               bestBefore |-> infinity, boundBefore |-> 0 - infinity,
               heurSince |-> 0, mipEver |-> FALSE, ownPending |-> FALSE]

\* The parameters' values in a fresh GRBEnv (all "automatic").
DefaultParams == [Presolve |-> 0 - 1, PreDual |-> 0 - 1, PrePasses |-> 0 - 1,
                  NodeMethod |-> 0 - 1, SiftMethod |-> 0 - 1,
                  LazyConstraints |-> 0]

\* ------------------------------------------------- variable index lookup
\* gurobiModel_->getVar(i): the i-th variable of the model, in creation order.
getVar(i) == i

\* gurobiVariables_[i]: the array the last addVars call returned, and the
\* null pointer before the first call.  A read past the array's end is
\* undefined: where it yields a handle, that is any handle of the model or
\* garbage; a read through the null pointer yields none.
VariableHandles(i) ==
    IF i < Len(gurobiVariables_)
    THEN {gurobiVariables_[i + 1]}
    ELSE IF gurobiVariables_ = <<>>
    THEN {}
    ELSE (0 .. (nVariables_ - 1)) \cup {Garbage}

\* Whether the reads gurobiVariables_[vi[k]] end the process (SIGSEGV): never
\* inside the array, always through the null pointer, and possibly past the
\* array's end.
CrashOutcomes(vi) ==
    IF \A k \in 1 .. Len(vi) : vi[k] < Len(gurobiVariables_)
    THEN {FALSE}
    ELSE IF gurobiVariables_ = <<>>
    THEN {TRUE}
    ELSE {FALSE, TRUE}

\* The process has not ended.
Running == optimizeResult # "SIGSEGV"

\* The expressions `expression += coefficient * gurobiVariables_[index]` can
\* build from the index list vi (coefficients all 1).
Expressions(vi) ==
    {[k \in 1 .. Len(vi) |-> [index |-> vi[k], var |-> h[k], coef |-> 1]] :
        h \in {f \in [1 .. Len(vi) -> (0 .. (nVariables_ - 1)) \cup {Garbage}] :
                 \A k \in 1 .. Len(vi) : f[k] \in VariableHandles(vi[k])}}

\* --------------------------------------------------- constraint emission
Constr(expression, sense, rhs) ==
    [terms |-> expression, sense |-> sense, rhs |-> rhs]

\* Gurobi::addConstraint, lines 365-378.
StaticEmitted(expression, lowerBound, upperBound) ==
    IF lowerBound = upperBound
    THEN <<Constr(expression, "=", lowerBound)>>
    ELSE (IF lowerBound # 0 - infinity
          THEN <<Constr(expression, ">=", lowerBound)>> ELSE <<>>)
         \o
         (IF upperBound # infinity
          THEN <<Constr(expression, "<=", upperBound)>> ELSE <<>>)

\* A slip in copying the static rule: the upper side tests the lower bound.
LazyEmitted_UpperTestsLower(expression, lowerBound, upperBound) ==
    IF lowerBound = upperBound
    THEN <<Constr(expression, "=", lowerBound)>>
    ELSE (IF lowerBound # 0 - infinity
          THEN <<Constr(expression, ">=", lowerBound)>> ELSE <<>>)
         \o
         (IF lowerBound # infinity
          THEN <<Constr(expression, "<=", upperBound)>> ELSE <<>>)

\* The upper side never emitted.
LazyEmitted_LowerSideOnly(expression, lowerBound, upperBound) ==
    IF lowerBound = upperBound
    THEN <<Constr(expression, "=", lowerBound)>>
    ELSE (IF lowerBound # 0 - infinity
          THEN <<Constr(expression, ">=", lowerBound)>> ELSE <<>>)

\* Gurobi::Callback::addLazyConstraint, lines 87-96.  `lowerBound <= expression`
\* is the constraint expression >= lowerBound.
LazyEmitted(expression, lowerBound, upperBound) ==
    IF lowerBound = upperBound
    THEN <<Constr(expression, "=", lowerBound)>>
    ELSE (IF lowerBound # 0 - infinity
          THEN <<Constr(expression, ">=", lowerBound)>> ELSE <<>>)
         \o
         (IF upperBound # infinity
          THEN <<Constr(expression, "<=", upperBound)>> ELSE <<>>)

\* One call's arguments.
Args(vi, lowerBound, upperBound) ==
    [vi |-> vi, lowerBound |-> lowerBound, upperBound |-> upperBound]

\* ------------------------------------------------------ callback, pieces
\* The sentinel translated to the infinity of the wrong sign.
TranslateObjectiveBest_WrongSign(v) ==
    IF v = GRB_INFINITY THEN 0 - infinity ELSE v

\* Lines 37-38.
TranslateObjectiveBest(v) == IF v = GRB_INFINITY THEN infinity ELSE v

\* Lines 41-42.
TranslateObjectiveBound(v) == IF v = 0 - GRB_INFINITY THEN 0 - infinity ELSE v

\* The progress block entered for every event but MIPSOL.
UpdatesProgress_UnlessCandidate(where) == where # "MIPSOL"

\* Line 34.
UpdatesProgress(where) == where = "MIP"

\* Separation skipped while an opportunity is pending.
InvokesSeparation_UnlessPending(where, flag) == where = "MIPSOL" /\ ~flag

\* Line 44.
InvokesSeparation(where, flag) == where = "MIPSOL"

\* The heuristic entered at any event but MIPSOL while the flag is set.
InvokesHeuristic_AnyOtherEvent(where, flag) == where # "MIPSOL" /\ flag

\* The heuristic entered at every MIPNODE event, pending or not.
InvokesHeuristic_IgnoresFlag(where, flag) == where = "MIPNODE"

\* The heuristic entered while no opportunity is pending: the flag negated.
InvokesHeuristic_NegatedFlag(where, flag) ==
    where # "MIPSOL" /\ where = "MIPNODE" /\ ~flag

\* Line 49: the else branch of line 44.
InvokesHeuristic(where, flag) == where # "MIPSOL" /\ where = "MIPNODE" /\ flag

\* The flag assigned whether or not the routine before it returned.
FlagAfter_AssignedOnError(where, flag, sep, heur) ==
    IF InvokesSeparation(where, flag) THEN TRUE
    ELSE IF InvokesHeuristic(where, flag) THEN FALSE
    ELSE flag

\* The flag set to whether separation succeeded.
FlagAfter_ClearedOnFailedSeparation(where, flag, sep, heur) ==
    IF InvokesSeparation(where, flag) THEN sep = "ok"
    ELSE IF InvokesHeuristic(where, flag)
         THEN (IF heur = "ok" THEN FALSE ELSE flag)
         ELSE flag

\* Lines 46-47 and 51-52: the assignment is reached only when the routine
\* before it returned.
FlagAfter(where, flag, sep, heur) ==
    IF InvokesSeparation(where, flag)
    THEN (IF sep = "ok" THEN TRUE ELSE flag)
    ELSE IF InvokesHeuristic(where, flag)
         THEN (IF heur = "ok" THEN FALSE ELSE flag)
         ELSE flag

\* What leaves callback(): lines 55-58 turn a GRBException into a
\* std::runtime_error whose text holds the error code and message; anything
\* else passes through.
Thrown(where, flag, sep, heur) ==
    LET raised == IF InvokesSeparation(where, flag) THEN sep
                  ELSE IF InvokesHeuristic(where, flag) THEN heur
                  ELSE "ok"
    IN  IF raised = "ok" THEN "none"
        ELSE IF raised = "GRBException" THEN "runtime_error"
        ELSE raised

\* Callback::setLabel, lines 67-70: getVar(index) raises a GRBException for an
\* index the model does not have, and the routine ends there.
HeuristicEnd(inject, heur) ==
    IF \E k \in 1 .. Len(inject) : inject[k].index >= nVariables_
    THEN "GRBException"
    ELSE heur

\* Callback::addLazyConstraint, lines 84-85: how the separation routine ends
\* when it would end with sep but for the reads of gurobiVariables_ its
\* addLazyConstraint call makes.
SeparationEnds(where, lazy, sep) ==
    IF InvokesSeparation(where, feasibleHeuristic_) /\ Len(lazy) > 0
    THEN {IF crash THEN "SIGSEGV" ELSE sep : crash \in CrashOutcomes(lazy[1].vi)}
    ELSE {sep}

\* The setLabel calls made before the routine ended: all of them, or those
\* before the first index the model does not have.
Reached(inject) ==
    LET bad == {k \in 1 .. Len(inject) : inject[k].index >= nVariables_}
    IN  IF bad = {} THEN inject
        ELSE SubSeq(inject, 1, (CHOOSE k \in bad : \A j \in bad : k <= j) - 1)

\* Line 69: setSolution(getVar(index), val) for each call reached.
Injected(inject) ==
    [k \in 1 .. Len(inject) |->
        [index |-> inject[k].index, var |-> getVar(inject[k].index),
         val |-> inject[k].val]]

\* ---------------------------------------------------- post-solve accessors
\* How a call of an accessor can end.  "crash" stands for whatever a read
\* through an invalid pointer does other than return or throw.
AccessorOutcomes == {"value", "GRBException", "crash"}

\* Gurobi::objective, lines 316-319: GRBModel::get decides.  No solution
\* exists before the first optimize(); afterwards the solver may hold one.
objective ==
    IF optimizeResult = "none" THEN {"GRBException"}
    ELSE {"value", "GRBException"}

\* Gurobi::label, lines 331-336: gurobiVariables_[variableIndex] is read with
\* no check.  A read through the null pointer (before addVariables) ends the
\* process and a read past the array's end is undefined; inside the array
\* GRBVar::get decides as above.
label(variableIndex) ==
    IF variableIndex < Len(gurobiVariables_) THEN objective
    ELSE IF gurobiVariables_ = <<>> THEN {"crash"}
    ELSE AccessorOutcomes

\* ------------------------------------------------------------ operations
Init ==
    /\ objectiveBest_ = infinity
    /\ objectiveBound_ = 0 - infinity
    /\ feasibleHeuristic_ = FALSE
    /\ whereMember = "none"
    /\ nVariables_ = 0
    /\ gurobiVariables_ = <<>>
    /\ gurobiObjective_ = <<>>
    /\ constraints = <<>>
    /\ lazyConstraints = <<>>
    /\ heuristicSolution = <<>>
    /\ searching = FALSE
    /\ optimizeResult = "none"
    /\ solverObjBst = GRB_INFINITY
    /\ solverObjBnd = 0 - GRB_INFINITY
    /\ last = NoDispatch
    /\ dispatches = 0
    /\ candidates = 0
    /\ freshCandidates = 0
    /\ heuristicCalls = 0
    /\ heuristicReturns = 0
    /\ resetSinceCandidate = FALSE
    /\ mipInSearch = 0
    /\ pendingInSearch = FALSE
    /\ incumbent = <<>>
    /\ gurobiParams = DefaultParams
    /\ lastPreSolver = <<>>
    /\ lastLPSolver = <<>>

\* Gurobi::addVariables, lines 283-293: the model gets numberOfVariables new
\* variables and gurobiVariables_ is REPLACED by the array of the new ones.
addVariables(numberOfVariables, coefficients) ==
    /\ ~searching
    /\ Running
    /\ nVariables_ + numberOfVariables <= MaxVariables
    /\ nVariables_' = nVariables_ + numberOfVariables
    /\ gurobiVariables_' = [k \in 1 .. numberOfVariables |-> nVariables_ + k - 1]
    /\ gurobiObjective_' = gurobiObjective_ \o
          [k \in 1 .. numberOfVariables |->
              [var |-> nVariables_ + k - 1, coef |-> coefficients[k]]]
    /\ UNCHANGED <<callbackVars, poolVars, solverVars, historyVars,
                   incumbent, paramVars>>

\* Gurobi::addConstraint, lines 353-379: the loop of lines 362-364 reads
\* gurobiVariables_ unchecked and either ends the process or builds the
\* expression, which is then added to the model.
addConstraint(vi, lowerBound, upperBound) ==
    /\ ~searching
    /\ Running
    /\ Len(constraints) + Len(lazyConstraints) < MaxConstraints
    /\ \E crash \in CrashOutcomes(vi) :
          IF crash
          THEN /\ optimizeResult' = "SIGSEGV"
               /\ UNCHANGED constraints
          ELSE /\ \E expression \in Expressions(vi) :
                     constraints' = Append(constraints,
                         [args |-> Args(vi, lowerBound, upperBound),
                          array |-> gurobiVariables_, n |-> nVariables_,
                          emitted |-> StaticEmitted(expression, lowerBound,
                                                    upperBound)])
               /\ UNCHANGED optimizeResult
    /\ UNCHANGED <<callbackVars, sessionVars, lazyConstraints, heuristicSolution,
                   searching, solverObjBst, solverObjBnd, historyVars,
                   incumbent, paramVars>>

\* Gurobi::optimize, lines 311-314: the search starts; the solver has no
\* incumbent and no bound yet.
optimizeBegin ==
    /\ ~searching
    /\ Running
    /\ searching' = TRUE
    /\ optimizeResult' = "running"
    /\ solverObjBst' = GRB_INFINITY
    /\ solverObjBnd' = 0 - GRB_INFINITY
    /\ incumbent' = <<>>
    /\ UNCHANGED <<callbackVars, sessionVars, poolVars, historyVars,
                   paramVars>>

\* gurobiModel_->optimize() returns: the search met a stopping criterion.
optimizeReturn ==
    /\ searching
    /\ searching' = FALSE
    /\ optimizeResult' = "ok"
    /\ mipInSearch' = 0
    /\ pendingInSearch' = FALSE
    /\ UNCHANGED <<callbackVars, sessionVars, poolVars, solverObjBst,
                   solverObjBnd, last, dispatches, candidates, freshCandidates,
                   heuristicCalls, heuristicReturns, resetSinceCandidate,
                   incumbent, paramVars>>

\* Callback::callback, lines 31-58, entered with `where`.  objbst and objbnd
\* are what getDoubleInfo returns; sep and heur are how the two user routines
\* end; lazy holds the addLazyConstraint calls the separation routine makes and
\* inject the setLabel calls the heuristic routine makes.  An exception that
\* leaves callback() ends the search, and so does the end of the process
\* inside addLazyConstraint ("SIGSEGV", which leaves everything as it is).
callback(where, objbst, objbnd, sep, lazy, heur, inject) ==
    \E sepEnd \in SeparationEnds(where, lazy, sep) :
    LET flag == feasibleHeuristic_
        heurEnd == HeuristicEnd(inject, heur)
        thrown == Thrown(where, flag, sepEnd, heurEnd)
        flagAfter == FlagAfter(where, flag, sepEnd, heurEnd)
    IN
    /\ searching
    /\ dispatches < MaxDispatch
    /\ whereMember' = where
    /\ IF UpdatesProgress(where)
       THEN /\ objectiveBest_' = TranslateObjectiveBest(objbst)
            /\ objectiveBound_' = TranslateObjectiveBound(objbnd)
       ELSE UNCHANGED <<objectiveBest_, objectiveBound_>>
    /\ feasibleHeuristic_' = flagAfter
    /\ IF InvokesSeparation(where, flag) /\ Len(lazy) > 0 /\ sepEnd # "SIGSEGV"
       THEN \E expression \in Expressions(lazy[1].vi) :
               lazyConstraints' = Append(lazyConstraints,
                   [args |-> lazy[1],
                    array |-> gurobiVariables_, n |-> nVariables_,
                    emitted |-> LazyEmitted(expression, lazy[1].lowerBound,
                                            lazy[1].upperBound)])
       ELSE UNCHANGED lazyConstraints
    /\ heuristicSolution' =
          IF InvokesHeuristic(where, flag)
          THEN Injected(Reached(inject)) ELSE <<>>
    /\ searching' = (thrown = "none")
    /\ optimizeResult' = IF thrown = "none" THEN optimizeResult ELSE thrown
    /\ last' = [where |-> where, flagAtEntry |-> flag,
                resetBefore |-> resetSinceCandidate,
                sepCalls |-> IF InvokesSeparation(where, flag) THEN 1 ELSE 0,
                heurCalls |-> IF InvokesHeuristic(where, flag) THEN 1 ELSE 0,
                thrown |-> thrown,
                objbst |-> objbst, objbnd |-> objbnd,
                bestBefore |-> objectiveBest_, boundBefore |-> objectiveBound_,
                heurSince |-> IF where = "MIPSOL" THEN 0
                              ELSE last.heurSince +
                                   (IF InvokesHeuristic(where, flag) THEN 1 ELSE 0),
                mipEver |-> (last.mipEver \/ where = "MIP"),
                ownPending |-> pendingInSearch]
    /\ dispatches' = dispatches + 1
    /\ candidates' = candidates + (IF where = "MIPSOL" THEN 1 ELSE 0)
    /\ freshCandidates' = freshCandidates +
          (IF where = "MIPSOL" /\ ~flag /\ sepEnd = "ok" THEN 1 ELSE 0)
    /\ heuristicCalls' = heuristicCalls +
          (IF InvokesHeuristic(where, flag) THEN 1 ELSE 0)
    /\ heuristicReturns' = heuristicReturns +
          (IF InvokesHeuristic(where, flag) /\ heurEnd = "ok" THEN 1 ELSE 0)
    /\ resetSinceCandidate' =
          IF where = "MIPSOL" THEN FALSE
          ELSE IF flag /\ ~flagAfter THEN TRUE
          ELSE resetSinceCandidate
    /\ mipInSearch' = IF thrown = "none"
                      THEN mipInSearch + (IF where = "MIP" THEN 1 ELSE 0)
                      ELSE 0
    /\ pendingInSearch' =
          (thrown = "none" /\ flagAfter /\ (where = "MIPSOL" \/ pendingInSearch))
    /\ UNCHANGED <<sessionVars, constraints, paramVars>>

\* ------------------------------------------------- the solver's dispatches
\* GRB_CB_MIP: within one search the solver's incumbent never gets worse and
\* its bound never gets weaker.
DispatchMIP ==
    \E objbst \in SolverValues, objbnd \in SolverValues :
        /\ objbst <= solverObjBst
        /\ objbnd >= solverObjBnd
        /\ callback("MIP", objbst, objbnd, "ok", <<>>, "ok", <<>>)
        /\ solverObjBst' = objbst
        /\ solverObjBnd' = objbnd
        /\ UNCHANGED incumbent

NoLazy == {<<>>}
OneLazy == IF Len(constraints) + Len(lazyConstraints) < MaxConstraints
           THEN {<<Args(<<0>>, 0 - infinity, 1)>>} ELSE {}

\* GRB_CB_MIPSOL.
DispatchMIPSOL ==
    \E sep \in Outcomes, lazy \in NoLazy \cup OneLazy :
        /\ callback("MIPSOL", 0, 0, sep, lazy, "ok", <<>>)
        /\ UNCHANGED <<solverObjBst, solverObjBnd, incumbent>>

Injections == {<<>>, <<[index |-> 0, val |-> 1]>>}

\* GRB_CB_MIPNODE.
DispatchMIPNODE ==
    \E heur \in Outcomes, inject \in Injections :
        /\ callback("MIPNODE", 0, 0, "ok", <<>>, heur, inject)
        /\ UNCHANGED <<solverObjBst, solverObjBnd, incumbent>>

\* Any other value of `where` (GRB_CB_MESSAGE, GRB_CB_PRESOLVE, ...).
DispatchOther ==
    /\ callback("MESSAGE", 0, 0, "ok", <<>>, "ok", <<>>)
    /\ UNCHANGED <<solverObjBst, solverObjBnd, incumbent>>

AddVariables ==
    \E n \in 1 .. 2 : addVariables(n, [k \in 1 .. n |-> 1])

Next ==
    \/ AddVariables
    \/ optimizeBegin
    \/ optimizeReturn
    \/ DispatchMIP
    \/ DispatchMIPSOL
    \/ DispatchMIPNODE
    \/ DispatchOther

Spec == Init /\ [][Next]_vars

\* ------------------------------------------------------ model building
\* The same operations with the client's full choice of arguments, and a
\* separation routine that returns after one addLazyConstraint call.
BuildAddVariables ==
    \E n \in 1 .. 2 : addVariables(n, [k \in 1 .. n |-> 1])

BuildAddConstraint ==
    \E vi \in IndexLists, lowerBound \in LowerBounds, upperBound \in UpperBounds :
        addConstraint(vi, lowerBound, upperBound)

BuildMIPSOL ==
    \E vi \in IndexLists, lowerBound \in LowerBounds, upperBound \in UpperBounds :
        /\ Len(constraints) + Len(lazyConstraints) < MaxConstraints
        /\ callback("MIPSOL", 0, 0, "ok", <<Args(vi, lowerBound, upperBound)>>,
                    "ok", <<>>)
        /\ UNCHANGED <<solverObjBst, solverObjBnd, incumbent>>

NextBuild ==
    \/ BuildAddVariables
    \/ BuildAddConstraint
    \/ optimizeBegin
    \/ optimizeReturn
    \/ BuildMIPSOL

SpecBuild == Init /\ [][NextBuild]_vars

\* ------------------------------------------ two variables, one lazy cut
\* The session of two binary variables whose separation routine adds
\* x0 + x1 <= 1 when the candidate has both at 1.  The search is the
\* solver's: it offers improving candidates that satisfy every constraint it
\* knows, takes a candidate as incumbent unless a lazy constraint added during
\* its MIPSOL dispatch cuts it off, and returns once no point satisfying the
\* known constraints is better than the incumbent.
ScenarioCoefficients == {<<1, 1>>, <<0 - 1, 0 - 1>>}
Labellings == {<<0, 0>>, <<0, 1>>, <<1, 0>>, <<1, 1>>}

\* The value of a linear expression (terms of handle and coefficient) at x.
RECURSIVE Value(_, _)
Value(terms, x) ==
    IF terms = <<>> THEN 0
    ELSE Head(terms).coef * x[Head(terms).var + 1] + Value(Tail(terms), x)

Satisfies(x, c) ==
    LET v == Value(c.terms, x)
    IN  IF c.sense = "=" THEN v = c.rhs
        ELSE IF c.sense = ">=" THEN v >= c.rhs
        ELSE v <= c.rhs

\* x satisfies everything the calls recorded in pool emitted.
SatisfiesAll(x, pool) ==
    \A k \in 1 .. Len(pool) :
        \A j \in 1 .. Len(pool[k].emitted) : Satisfies(x, pool[k].emitted[j])

ObjectiveValue(x) == Value(gurobiObjective_, x)

\* The separation routine of the scenario: what it passes to
\* addLazyConstraint for the candidate x.
Separation(x) ==
    IF x[1] = 1 /\ x[2] = 1
    THEN <<Args(<<0, 1>>, 0 - infinity, 1)>>
    ELSE <<>>

Improves(x) ==
    IF incumbent = <<>> THEN TRUE
    ELSE ObjectiveValue(x) < ObjectiveValue(incumbent)

\* Gurobi::setCallback, lines 303-309.
setCallback ==
    /\ ~searching
    /\ Running
    /\ gurobiParams.LazyConstraints = 0
    /\ gurobiParams' = [gurobiParams EXCEPT !.LazyConstraints = 1]
    /\ UNCHANGED <<callbackVars, sessionVars, poolVars, solverVars, historyVars,
                   incumbent, lastPreSolver, lastLPSolver>>

ScenarioAddVariables ==
    \E coefficients \in ScenarioCoefficients :
        /\ nVariables_ = 0
        /\ addVariables(2, coefficients)

ScenarioOptimize ==
    /\ nVariables_ = 2
    /\ gurobiParams.LazyConstraints = 1
    /\ optimizeResult = "none"
    /\ optimizeBegin

ScenarioMIPSOL ==
    \E x \in Labellings, sep \in Outcomes :
        /\ SatisfiesAll(x, constraints) /\ SatisfiesAll(x, lazyConstraints)
        /\ Improves(x)
        /\ callback("MIPSOL", 0, 0, sep, Separation(x), "ok", <<>>)
        /\ incumbent' = IF sep = "ok" /\ SatisfiesAll(x, lazyConstraints')
                        THEN x ELSE incumbent
        /\ UNCHANGED <<solverObjBst, solverObjBnd>>

ScenarioReturn ==
    /\ incumbent # <<>>
    /\ \A x \in Labellings :
          (SatisfiesAll(x, constraints) /\ SatisfiesAll(x, lazyConstraints))
              => ~Improves(x)
    /\ optimizeReturn

NextScenario ==
    \/ ScenarioAddVariables
    \/ setCallback
    \/ ScenarioOptimize
    \/ ScenarioMIPSOL
    \/ DispatchMIPNODE
    \/ ScenarioReturn

SpecScenario == Init /\ [][NextScenario]_vars

\* ---------------------------------------------------- solver parameters
PreSolvers == {"PRE_SOLVER_AUTO", "PRE_SOLVER_PRIMAL", "PRE_SOLVER_DUAL",
               "PRE_SOLVER_NONE"}
LPSolvers == {"LP_SOLVER_PRIMAL_SIMPLEX", "LP_SOLVER_DUAL_SIMPLEX",
              "LP_SOLVER_BARRIER", "LP_SOLVER_SIFTING"}
\* Pass counts a client gives setPreSolver (-1 is the declared default).
Passes == {0 - 1, 1, 2}

\* The parameters after setPreSolver(preSolver, passes), lines 234-248:
\* PRE_SOLVER_NONE writes Presolve and returns; the others write PreDual and
\* then PrePasses.
PreSolverParams(params, preSolver, passes) ==
    IF preSolver = "PRE_SOLVER_NONE"
    THEN [params EXCEPT !.Presolve = 0]
    ELSE [params EXCEPT
            !.PreDual = (IF preSolver = "PRE_SOLVER_AUTO" THEN 0 - 1
                         ELSE IF preSolver = "PRE_SOLVER_PRIMAL" THEN 0
                         ELSE 1),
            !.PrePasses = passes]

\* The parameters after setLPSolver(lpSolver), lines 266-280.
LPSolverParams(params, lpSolver) ==
    IF lpSolver = "LP_SOLVER_PRIMAL_SIMPLEX"
    THEN [params EXCEPT !.NodeMethod = 0]
    ELSE IF lpSolver = "LP_SOLVER_DUAL_SIMPLEX"
    THEN [params EXCEPT !.NodeMethod = 1]
    ELSE IF lpSolver = "LP_SOLVER_BARRIER"
    THEN [params EXCEPT !.NodeMethod = 2]
    ELSE [params EXCEPT !.NodeMethod = 1, !.SiftMethod = 1]

\* Gurobi::setPreSolver, lines 229-260.
setPreSolver(preSolver, passes) ==
    /\ ~searching
    /\ Running
    /\ gurobiParams' = PreSolverParams(gurobiParams, preSolver, passes)
    /\ lastPreSolver' = <<preSolver, passes>>
    /\ UNCHANGED <<callbackVars, sessionVars, poolVars, solverVars, historyVars,
                   incumbent, lastLPSolver>>

\* Gurobi::setLPSolver, lines 262-281.
setLPSolver(lpSolver) ==
    /\ ~searching
    /\ Running
    /\ gurobiParams' = LPSolverParams(gurobiParams, lpSolver)
    /\ lastLPSolver' = <<lpSolver>>
    /\ UNCHANGED <<callbackVars, sessionVars, poolVars, solverVars, historyVars,
                   incumbent, lastPreSolver>>

SetPreSolver ==
    \E preSolver \in PreSolvers, passes \in Passes : setPreSolver(preSolver, passes)

SetLPSolver ==
    \E lpSolver \in LPSolvers : setLPSolver(lpSolver)

NextParams ==
    \/ SetPreSolver
    \/ SetLPSolver

SpecParams == Init /\ [][NextParams]_vars

\* ================================================================ claims
Pending == IF feasibleHeuristic_ THEN 1 ELSE 0

\* C1 (as claimed): feasibleHeuristic_ is true right after every MIPSOL
\* dispatch and false right after the MIPNODE dispatch that follows it.
C1_FlagFollowsEvents ==
    /\ last.where = "MIPSOL" => feasibleHeuristic_
    /\ last.where = "MIPNODE" => ~feasibleHeuristic_

\* C2 (as claimed): computeFeasibleSolution is invoked at most once per
\* MIPSOL dispatch, also when a routine raises and across optimize() calls.
C2_AtMostOncePerCandidate == heuristicCalls <= candidates

\* C3 (as claimed): once a MIPNODE dispatch has followed the last MIPSOL
\* dispatch, heuristic completion has been invoked once per MIPSOL dispatch.
C3_ExactlyOncePerCandidate ==
    last.where = "MIPNODE" => heuristicCalls = candidates

\* C3 (amended): heuristic completion runs once per pending opportunity, and
\* not zero times.  A MIPNODE dispatch that begins with an opportunity pending
\* invokes it once, and one that begins with none does not invoke it; once a
\* MIPNODE dispatch has followed the last MIPSOL dispatch, it has been invoked
\* at least once for every opportunity (every MIPSOL dispatch that began with
\* the flag false and whose separation routine returned); and the
\* invocations that returned, plus one while an opportunity is pending, are
\* exactly as many as the opportunities.
C3_OncePerPendingOpportunity ==
    /\ last.where = "MIPNODE" =>
          last.heurCalls = (IF last.flagAtEntry THEN 1 ELSE 0)
    /\ last.where = "MIPNODE" => heuristicCalls >= freshCandidates
    /\ heuristicReturns + Pending = freshCandidates

\* Two candidates in a row shared one heuristic invocation, made by the
\* MIPNODE dispatch that found the opportunity pending.
C3_Witness ==
    /\ last.where = "MIPNODE"
    /\ last.flagAtEntry
    /\ last.heurCalls = 1
    /\ candidates = 2
    /\ freshCandidates = 1
    /\ heuristicCalls = 1
    /\ heuristicReturns = 1
    /\ ~feasibleHeuristic_

\* C4 (as claimed): a MIPSOL dispatch that begins with the flag true has had
\* a reset of the flag since the MIPSOL dispatch before it.
C4_ResetBetweenCandidates ==
    (last.where = "MIPSOL" /\ last.flagAtEntry) => last.resetBefore

\* C4 (amended): the flag stays true across consecutive MIPSOL dispatches: a
\* MIPSOL dispatch that begins with the flag true has had no reset since the
\* MIPSOL dispatch before it, and leaves the flag true.
C4_FlagSurvivesCandidates ==
    (last.where = "MIPSOL" /\ last.flagAtEntry) =>
        (~last.resetBefore /\ feasibleHeuristic_)

\* A MIPSOL dispatch began with the flag true and its separation raised.
C4_Witness ==
    /\ last.where = "MIPSOL"
    /\ last.flagAtEntry
    /\ last.thrown # "none"
    /\ candidates >= 2

\* C5: every MIPSOL dispatch invokes separateAndAddLazyConstraints exactly
\* once and computeFeasibleSolution not at all, whatever the flag was.
C5_SeparationOncePerCandidate ==
    last.where = "MIPSOL" => (last.sepCalls = 1 /\ last.heurCalls = 0)

\* A MIPSOL dispatch entered with an opportunity pending, after a MIPNODE one.
C5_Witness ==
    /\ last.where = "MIPSOL"
    /\ last.flagAtEntry
    /\ last.sepCalls = 1
    /\ heuristicCalls >= 1

\* C6: the emission rule, stated on one call's record r = [args, array, n,
\* emitted], array and n being gurobiVariables_ and the number of variables
\* of the model at the call.
Count(emitted, sense, rhs) ==
    Cardinality({k \in 1 .. Len(emitted) :
                    emitted[k].sense = sense /\ emitted[k].rhs = rhs})

EmissionRule(r) ==
    LET lb == r.args.lowerBound
        ub == r.args.upperBound
        n == Len(r.emitted)
    IN  /\ lb = ub => (n = 1 /\ Count(r.emitted, "=", lb) = 1)
        /\ lb < ub =>
              /\ n <= 2
              /\ Count(r.emitted, "=", lb) = 0 /\ Count(r.emitted, "=", ub) = 0
              /\ Count(r.emitted, ">=", lb) = (IF lb # 0 - infinity THEN 1 ELSE 0)
              /\ Count(r.emitted, "<=", ub) = (IF ub # infinity THEN 1 ELSE 0)
              /\ n = Count(r.emitted, ">=", lb) + Count(r.emitted, "<=", ub)

\* A constraint without the handles its indices resolved to.
Shape(emitted) ==
    [k \in 1 .. Len(emitted) |->
        [indices |-> [j \in 1 .. Len(emitted[k].terms) |-> emitted[k].terms[j].index],
         coefs |-> [j \in 1 .. Len(emitted[k].terms) |-> emitted[k].terms[j].coef],
         sense |-> emitted[k].sense, rhs |-> emitted[k].rhs]]

\* C6: addConstraint and addLazyConstraint emit one equality when
\* lowerBound = upperBound, and otherwise the lower side iff lowerBound is not
\* -infinity and the upper side iff upperBound is not +infinity; for the same
\* arguments both emit the same constraints: over the same indices, and over
\* the same variables when the calls saw the same gurobiVariables_ array and
\* every index lies inside it.
C6_EmissionRule ==
    /\ \A k \in 1 .. Len(constraints) : EmissionRule(constraints[k])
    /\ \A k \in 1 .. Len(lazyConstraints) : EmissionRule(lazyConstraints[k])
    /\ \A k \in 1 .. Len(constraints), j \in 1 .. Len(lazyConstraints) :
          constraints[k].args = lazyConstraints[j].args =>
              /\ Shape(constraints[k].emitted) = Shape(lazyConstraints[j].emitted)
              /\ (/\ constraints[k].array = lazyConstraints[j].array
                  /\ \A i \in 1 .. Len(constraints[k].args.vi) :
                        constraints[k].args.vi[i] < Len(constraints[k].array))
                 => constraints[k].emitted = lazyConstraints[j].emitted

\* A static and a lazy call with the same two-sided bounds on an index inside
\* the same array: each emitted both sides.
C6_Witness ==
    \E k \in 1 .. Len(constraints), j \in 1 .. Len(lazyConstraints) :
        /\ constraints[k].args = lazyConstraints[j].args
        /\ constraints[k].array = lazyConstraints[j].array
        /\ constraints[k].args.vi[1] < Len(constraints[k].array)
        /\ constraints[k].args.lowerBound = 0
        /\ constraints[k].args.upperBound = 1
        /\ Len(constraints[k].emitted) = 2
        /\ Len(lazyConstraints[j].emitted) = 2

\* C8 (as claimed): every index i in 0..n-1 denotes the i-th variable created,
\* through gurobiVariables_[i] (addConstraint, addLazyConstraint, setBranchPrio,
\* setStart, label) as through getVar(i) (Callback::label, Callback::setLabel).
C8_IndexDenotesSameVariable ==
    \A i \in 0 .. (nVariables_ - 1) : VariableHandles(i) = {getVar(i)}

\* C9: within one search, each MIP dispatch after the first leaves
\* objectiveBest_ no larger and objectiveBound_ no smaller than the MIP
\* dispatch before it did.
C9_Monotone ==
    (last.where = "MIP" /\ mipInSearch >= 2) =>
        /\ objectiveBest_ <= last.bestBefore
        /\ objectiveBound_ >= last.boundBefore

\* A second MIP dispatch of a search improved both values.
C9_Witness ==
    /\ last.where = "MIP"
    /\ mipInSearch >= 2
    /\ objectiveBest_ < last.bestBefore
    /\ objectiveBound_ > last.boundBefore
    /\ last.bestBefore = infinity

\* C10 (as claimed): after a MIP dispatch neither stored value is a sentinel;
\* a reported sentinel is stored as the infinity of its sign.
C10_SentinelsTranslated ==
    last.where = "MIP" =>
        /\ objectiveBest_ \notin {GRB_INFINITY, 0 - GRB_INFINITY}
        /\ objectiveBound_ \notin {GRB_INFINITY, 0 - GRB_INFINITY}
        /\ last.objbst = GRB_INFINITY => objectiveBest_ = infinity
        /\ last.objbst = 0 - GRB_INFINITY => objectiveBest_ = 0 - infinity
        /\ last.objbnd = GRB_INFINITY => objectiveBound_ = infinity
        /\ last.objbnd = 0 - GRB_INFINITY => objectiveBound_ = 0 - infinity

\* C16: a MIP dispatch invokes neither user routine, raises nothing, adds no
\* lazy constraint and no heuristic solution, and leaves feasibleHeuristic_
\* as it found it.
C16_ProgressIsBookkeeping ==
    last.where = "MIP" =>
        /\ last.sepCalls = 0
        /\ last.heurCalls = 0
        /\ last.thrown = "none"
        /\ heuristicSolution = <<>>
        /\ feasibleHeuristic_ = last.flagAtEntry

\* A MIP dispatch entered with an opportunity pending left it pending.
C16_Witness ==
    /\ last.where = "MIP"
    /\ last.flagAtEntry
    /\ feasibleHeuristic_
    /\ last.heurCalls = 0
    /\ objectiveBest_ # last.bestBefore

\* C17 (as claimed): a MIPNODE dispatch that begins with the flag false
\* invokes no routine and leaves objectiveBest_, objectiveBound_ and the flag
\* unchanged; hence computeFeasibleSolution is invoked at most once between
\* two MIPSOL dispatches.
C17_NoOpWithoutPending ==
    /\ (last.where = "MIPNODE" /\ ~last.flagAtEntry) =>
          /\ last.sepCalls = 0
          /\ last.heurCalls = 0
          /\ last.thrown = "none"
          /\ ~feasibleHeuristic_
          /\ objectiveBest_ = last.bestBefore
          /\ objectiveBound_ = last.boundBefore
    /\ last.heurSince <= 1

\* C18: objectiveBest_ and objectiveBound_ are +infinity and -infinity until
\* the first MIP dispatch, and every MIPSOL or MIPNODE dispatch leaves both as
\* it found them.
C18_OnlyProgressWrites ==
    /\ ~last.mipEver =>
          (objectiveBest_ = infinity /\ objectiveBound_ = 0 - infinity)
    /\ last.where \in {"MIPSOL", "MIPNODE"} =>
          /\ objectiveBest_ = last.bestBefore
          /\ objectiveBound_ = last.boundBefore

\* A MIPNODE dispatch that ran the heuristic after a MIP dispatch had stored
\* finite values left them in place.
C18_Witness ==
    /\ last.where = "MIPNODE"
    /\ last.heurCalls = 1
    /\ last.mipEver
    /\ last.bestBefore < infinity
    /\ last.boundBefore > 0 - infinity
    /\ objectiveBest_ = last.bestBefore
    /\ objectiveBound_ = last.boundBefore

\* C19 (as claimed): computeFeasibleSolution is invoked only on a flag that a
\* MIPSOL dispatch of the same optimize() call set.
C19_OnlyAfterCandidateOfSameSearch ==
    last.heurCalls = 1 => last.ownPending

\* C19 (amended): computeFeasibleSolution is invoked only when a MIPSOL
\* dispatch on this callback, in this optimize() call or an earlier one, began
\* with the flag false and returned, and the flag has not been reset since
\* the last MIPSOL dispatch.
C19_OnlyAfterCandidateOfCallback ==
    last.heurCalls = 1 =>
        /\ last.flagAtEntry
        /\ freshCandidates >= 1
        /\ ~last.resetBefore

\* The heuristic ran on a flag left over from an earlier optimize() call.
C19_Witness ==
    /\ last.where = "MIPNODE"
    /\ last.heurCalls = 1
    /\ ~last.ownPending
    /\ freshCandidates >= 1

\* C13 (as claimed): an addConstraint or addLazyConstraint call given an
\* index outside 0..n-1 fails with an error and emits no constraint: no call
\* has ended the process, and every call recorded in the pool had all its
\* indices below the number of variables n at the call.
C13_IndexesValidated ==
    /\ Running
    /\ \A k \in 1 .. Len(constraints) :
          \A i \in 1 .. Len(constraints[k].args.vi) :
              constraints[k].args.vi[i] < constraints[k].n
    /\ \A k \in 1 .. Len(lazyConstraints) :
          \A i \in 1 .. Len(lazyConstraints[k].args.vi) :
              lazyConstraints[k].args.vi[i] < lazyConstraints[k].n

\* C14 (as claimed): while no optimize() call has begun, objective() and
\* label(i) can end only by raising an error: they return no value and do
\* nothing else.
C14_AccessorsFailBeforeSolve ==
    optimizeResult = "none" =>
        /\ objective \subseteq {"GRBException"}
        /\ \A variableIndex \in 0 .. (MaxVariables - 1) :
              label(variableIndex) \subseteq {"GRBException"}

\* The knobs setPreSolver writes, and those setLPSolver writes.
PreSolverKnobs(params) == <<params.Presolve, params.PreDual, params.PrePasses>>
LPSolverKnobs(params) == <<params.NodeMethod, params.SiftMethod>>

\* C20 (as claimed): after any sequence of calls the knobs of setPreSolver
\* and of setLPSolver hold what the last call alone leaves in them (what it
\* leaves in a fresh environment), and two different choices leave
\* different knobs.
C20_LastCallDecides ==
    /\ lastPreSolver # <<>> =>
          PreSolverKnobs(gurobiParams) =
          PreSolverKnobs(PreSolverParams(DefaultParams, lastPreSolver[1],
                                         lastPreSolver[2]))
    /\ lastLPSolver # <<>> =>
          LPSolverKnobs(gurobiParams) =
          LPSolverKnobs(LPSolverParams(DefaultParams, lastLPSolver[1]))
    /\ \A a \in PreSolvers, b \in PreSolvers, passes \in Passes :
          a # b => PreSolverKnobs(PreSolverParams(gurobiParams, a, passes))
                   # PreSolverKnobs(PreSolverParams(gurobiParams, b, passes))
    /\ \A a \in LPSolvers, b \in LPSolvers :
          a # b => LPSolverKnobs(LPSolverParams(gurobiParams, a))
                   # LPSolverKnobs(LPSolverParams(gurobiParams, b))

\* The model of the scenario with x0 + x1 <= 1 as a static constraint.
StaticFeasible == {x \in Labellings : x[1] + x[2] <= 1}
StaticOptima ==
    {x \in StaticFeasible :
        \A y \in StaticFeasible : ObjectiveValue(x) <= ObjectiveValue(y)}

\* C15: in the session of two binary variables whose separation routine adds
\* the lazy constraint x0 + x1 <= 1 when both are 1 in the candidate, no
\* accepted solution has both variables at 1, and when optimize() returns the
\* solution is an optimum of the model with x0 + x1 <= 1 added statically.
C15_LazyMatchesStatic ==
    /\ incumbent # <<>> => incumbent \in StaticFeasible
    /\ optimizeResult = "ok" => incumbent \in StaticOptima

\* optimize() returned with one variable at 1, after the separation routine
\* had cut off the candidate with both at 1.
C15_Witness ==
    /\ optimizeResult = "ok"
    /\ incumbent \in {<<0, 1>>, <<1, 0>>}
    /\ Len(lazyConstraints) = 1
    /\ Len(lazyConstraints[1].emitted) = 1
    /\ ObjectiveValue(incumbent) = 0 - 1

====
